---- MODULE Spec2Model ----
(***************************************************************************)
(* Model of src/minesweeper.py: the Sentence class (a set of cells and the *)
(* number of mines among them) and the MinesweeperAI knowledge engine      *)
(* (moves_made, mines, safes, knowledge) with its operations mark_mine,    *)
(* mark_safe, add_knowledge, make_safe_move and make_random_move.          *)
(*                                                                         *)
(* A cell is a pair <<row, column>>.  A Sentence is a record               *)
(* [cells, count].  The engine is the record                               *)
(* [moves_made, mines, safes, knowledge]; the methods are operators from   *)
(* an engine to the engine after the call.                                 *)
(***************************************************************************)
EXTENDS Integers, FiniteSets, Sequences, TLC

\* ---- bounds of the model ------------------------------------------------
MaxCells == 6       \* boards have height x width <= MaxCells cells
MaxCellsAny == 4    \* the same for the boards of SpecAny
MaxObs == 3         \* add_knowledge calls in one game of Spec
MaxCalls == 3       \* state-changing calls in one behaviour of SpecAny
MaxCount == 1       \* counts 0..MaxCount given to add_knowledge in SpecAny
MaxStepObs == 2     \* add_knowledge calls in one game of SpecSteps
MaxKnowledge == 9   \* sentences the knowledge list holds in SpecSteps

VARIABLES height, width, layout,
          moves_made, mines, safes, knowledge, clamped,
          op, arg, argn, ret, ncalls, rep, before,
          sen, pre, known,
          pc, isentence, ifirst, isecond, tempKnowledge, itemp

vars == <<height, width, layout, moves_made, mines, safes, knowledge, clamped,
          op, arg, argn, ret, ncalls, rep, before, sen, pre, known,
          pc, isentence, ifirst, isecond, tempKnowledge, itemp>>

engvars == <<moves_made, mines, safes, knowledge>>

senvars == <<sen, pre, known>>

\* the position inside a running add_knowledge call: the loop it is in,
\* the indices of its loop variables and its local list tempKnowledge
stepvars == <<pc, isentence, ifirst, isecond, tempKnowledge, itemp>>

\* op, arg, argn and ret record the last call, its cell, its count and the
\* cell it returned; rep says that the last call repeated the call before it
\* (same method, same cell); ncalls counts the calls that change the engine;
\* before is the engine as it was when the last observation of a game
\* (Observe) was made.
\* clamped is a ghost field of the engine: some Sentence.mark_mine call made
\* by it found its cell in a sentence whose count was not positive (the else
\* branch "self.count = 0").
\* sen is a Sentence on its own, pre the same Sentence before the last call
\* on it, known the set its last known_mines or known_safes call returned.

\* the value Python's None stands for in a returned cell
None == <<-1, -1>>

abs(n) == IF n < 0 THEN -n ELSE n

\* all coordinates of an h x w board
Cells(h, w) == (0 .. h - 1) \X (0 .. w - 1)

\* ---- Minesweeper (the board) --------------------------------------------
\* number of mines within one row and column of cell, the cell excluded
nearby_mines(h, w, board, cell) ==
    Cardinality({m \in board :
        /\ m[1] \in (cell[1] - 1) .. (cell[1] + 1)
        /\ m[2] \in (cell[2] - 1) .. (cell[2] + 1)
        /\ m # cell
        /\ 0 <= m[1] /\ m[1] < h /\ 0 <= m[2] /\ m[2] < w})

\* ---- Sentence -----------------------------------------------------------
Sentence(cells, count) == [cells |-> cells, count |-> count]

\* a known_mines that forgets to compare the count with the number of cells
known_mines_any_count(s) ==
    IF s.count > 0 THEN s.cells ELSE {}

\* a known_mines that tests count >= number of cells
known_mines_count_at_least(s) ==
    IF Cardinality(s.cells) <= s.count /\ s.count > 0 THEN s.cells ELSE {}

known_mines(s) ==
    IF Cardinality(s.cells) = s.count /\ s.count > 0 THEN s.cells ELSE {}

\* a known_safes that takes a count of one for none
known_safes_at_most_one(s) ==
    IF s.count <= 1 THEN s.cells ELSE {}

known_safes(s) ==
    IF s.count = 0 THEN s.cells ELSE {}

\* a Sentence.mark_mine that removes the cell and keeps the count
Sentence_mark_mine_keep_count(s, cell) ==
    IF cell \in s.cells
    THEN [cells |-> s.cells \ {cell}, count |-> s.count]
    ELSE s

\* a Sentence.mark_mine that lowers the count whether or not the cell is there
Sentence_mark_mine_always(s, cell) ==
    [cells |-> s.cells \ {cell}, count |-> s.count - 1]

\* a Sentence.mark_mine without the test "if (self.count > 0)"
Sentence_mark_mine_no_clamp(s, cell) ==
    IF cell \in s.cells
    THEN [cells |-> s.cells \ {cell}, count |-> s.count - 1]
    ELSE s

Sentence_mark_mine(s, cell) ==
    IF cell \in s.cells
    THEN [cells |-> s.cells \ {cell},
          count |-> IF s.count > 0 THEN s.count - 1 ELSE 0]
    ELSE s

\* a Sentence.mark_safe that lowers the count as Sentence.mark_mine does
Sentence_mark_safe_lower_count(s, cell) ==
    IF cell \in s.cells
    THEN [cells |-> s.cells \ {cell},
          count |-> IF s.count > 0 THEN s.count - 1 ELSE 0]
    ELSE s

Sentence_mark_safe(s, cell) ==
    IF cell \in s.cells
    THEN [cells |-> s.cells \ {cell}, count |-> s.count]
    ELSE s

\* ---- MinesweeperAI ------------------------------------------------------
NewAI == [moves_made |-> {}, mines |-> {}, safes |-> {}, knowledge |-> <<>>,
          clamped |-> FALSE]

\* the else branch of "if (self.count > 0)" in Sentence.mark_mine is taken
clamps(s, cell) == cell \in s.cells /\ ~(s.count > 0)

mark_mine(e, cell) ==
    [e EXCEPT !.mines = @ \cup {cell},
              !.knowledge = [i \in DOMAIN @ |-> Sentence_mark_mine(@[i], cell)],
              !.clamped = @ \/ \E i \in DOMAIN e.knowledge :
                                  clamps(e.knowledge[i], cell)]

\* a mark_safe that also takes the cell out of mines
mark_safe_unmine(e, cell) ==
    [e EXCEPT !.safes = @ \cup {cell},
              !.mines = @ \ {cell},
              !.knowledge = [i \in DOMAIN @ |-> Sentence_mark_safe(@[i], cell)]]

mark_safe(e, cell) ==
    [e EXCEPT !.safes = @ \cup {cell},
              !.knowledge = [i \in DOMAIN @ |-> Sentence_mark_safe(@[i], cell)]]

\* a neighbour scan without the diagonal branch
neighbours_no_diagonal(h, w, e, cell) ==
    {n \in Cells(h, w) :
        /\ n \notin e.safes
        /\ \/ abs(cell[1] - n[1]) = 0 /\ abs(cell[2] - n[2]) = 1
           \/ abs(cell[1] - n[1]) = 1 /\ abs(cell[2] - n[2]) = 0}

\* a neighbour scan that also leaves out the cells known to be mines
neighbours_without_mines(h, w, e, cell) ==
    {n \in Cells(h, w) :
        /\ n \notin e.safes /\ n \notin e.mines
        /\ \/ abs(cell[1] - n[1]) = 1 /\ abs(cell[2] - n[2]) = 1
           \/ abs(cell[1] - n[1]) = 0 /\ abs(cell[2] - n[2]) = 1
           \/ abs(cell[1] - n[1]) = 1 /\ abs(cell[2] - n[2]) = 0}

\* the cells add_knowledge collects for the new sentence: the in-bounds
\* cells one step from cell (diagonals included) that are not in safes
neighbours(h, w, e, cell) ==
    {n \in Cells(h, w) :
        /\ n \notin e.safes
        /\ \/ abs(cell[1] - n[1]) = 1 /\ abs(cell[2] - n[2]) = 1
           \/ abs(cell[1] - n[1]) = 0 /\ abs(cell[2] - n[2]) = 1
           \/ abs(cell[1] - n[1]) = 1 /\ abs(cell[2] - n[2]) = 0}

\* steps 1-3 of add_knowledge: record the move, mark the cell safe, append
\* the new sentence
intake(h, w, e, cell, count) ==
    LET e1 == mark_safe([e EXCEPT !.moves_made = @ \cup {cell}], cell)
    IN  [e1 EXCEPT !.knowledge =
            Append(@, Sentence(neighbours(h, w, e1, cell), count))]

\* "for cell in tempSentenceCells: if (cell in mines): self.mark_mine(cell)"
\* where mines is the sentence's own cells set (known_mines returned
\* self.cells), so the membership test reads the set as mark_mine shrinks
\* it.  todo is what is left of tempSentenceCells.  Every cell of the copy
\* is still in the live set when its turn comes, so the order of the
\* iteration does not change the result.
RECURSIVE mark_mines_loop(_, _, _)
mark_mines_loop(e, i, todo) ==
    IF todo = {} THEN e
    ELSE LET cell == CHOOSE c \in todo : TRUE
         IN  mark_mines_loop(
                 IF cell \in e.knowledge[i].cells THEN mark_mine(e, cell) ELSE e,
                 i, todo \ {cell})

\* "for cell in tempSentenceCells: if (cell in safes): self.mark_safe(cell)"
RECURSIVE mark_safes_loop(_, _, _)
mark_safes_loop(e, i, todo) ==
    IF todo = {} THEN e
    ELSE LET cell == CHOOSE c \in todo : TRUE
         IN  mark_safes_loop(
                 IF cell \in e.knowledge[i].cells THEN mark_safe(e, cell) ELSE e,
                 i, todo \ {cell})

\* the body of the closure loop for the sentence at position i
closure_sentence(e, i) ==
    LET sentence == e.knowledge[i]
        tempSentenceCells == sentence.cells
        e1 == IF known_mines(sentence) = {} THEN e
              ELSE mark_mines_loop(e, i, tempSentenceCells)
        e2 == IF known_safes(e1.knowledge[i]) = {} THEN e1
              ELSE mark_safes_loop(e1, i, tempSentenceCells)
    IN  e2

\* step 4 of add_knowledge: one pass over knowledge, in list order
RECURSIVE closure_from(_, _)
closure_from(e, i) ==
    IF i > Len(e.knowledge) THEN e
    ELSE closure_from(closure_sentence(e, i), i + 1)

\* a closure pass that looks at the new sentence only
closure_pass_new_only(e) == closure_from(e, Len(e.knowledge))

closure_pass(e) == closure_from(e, 1)

\* a derivation test without the branch for equal cell sets
derivable_no_equal_test(first, second) ==
    /\ first.cells \subseteq second.cells
    /\ ~(first.count = 0 \/ second.count = 0)
    /\ ~(Cardinality(first.cells) = 0 \/ Cardinality(second.cells) = 0)

\* the test of the derivation loop for the pair (first, second)
derivable(first, second) ==
    /\ first.cells \subseteq second.cells
    /\ first.cells # second.cells
    /\ ~(first.count = 0 \/ second.count = 0)
    /\ ~(Cardinality(first.cells) = 0 \/ Cardinality(second.cells) = 0)

\* tempKnowledge: the sentences of the pairs (k[i], k[j]), j running
\* inside i, from the pair (i, j) on
RECURSIVE temp_knowledge(_, _, _)
temp_knowledge(k, i, j) ==
    IF i > Len(k) THEN <<>>
    ELSE IF j > Len(k) THEN temp_knowledge(k, i + 1, 1)
    ELSE LET rest == temp_knowledge(k, i, j + 1)
         IN  IF derivable(k[i], k[j])
             THEN <<Sentence(k[j].cells \ k[i].cells, k[j].count - k[i].count)>>
                  \o rest
             ELSE rest

\* step 5 of add_knowledge: append the derived sentences
derive(e) ==
    [e EXCEPT !.knowledge = @ \o temp_knowledge(@, 1, 1)]

add_knowledge(h, w, e, cell, count) ==
    derive(closure_pass(intake(h, w, e, cell, count)))

\* a make_safe_move that does not test moves_made
safe_move_cells_any(e) == e.safes

\* make_safe_move returns the first cell of safes, in the set's iteration
\* order, that is not in moves_made: any such cell can be the one
safe_move_cells(e) == e.safes \ e.moves_made

\* a make_safe_move that records the cell it returns as a move
make_safe_move_recording(e, pick) ==
    [ret |-> IF safe_move_cells(e) = {} THEN None ELSE pick,
     e |-> IF safe_move_cells(e) = {} THEN e
           ELSE [e EXCEPT !.moves_made = @ \cup {pick}]]

make_safe_move(e, pick) ==
    [ret |-> IF safe_move_cells(e) = {} THEN None ELSE pick, e |-> e]

\* a make_random_move that scans width rows and height columns
random_move_cells_swapped(h, w, e) ==
    {c \in Cells(w, h) : c \notin e.moves_made /\ c \notin e.mines}

\* make_random_move scans rows 0..height-1, columns 0..width-1 in order and
\* returns the first cell in neither moves_made nor mines
random_move_cells(h, w, e) ==
    {c \in Cells(h, w) : c \notin e.moves_made /\ c \notin e.mines}

first_cell(S) ==
    CHOOSE c \in S : \A d \in S : c[1] < d[1] \/ (c[1] = d[1] /\ c[2] <= d[2])

make_random_move(h, w, e) ==
    [ret |-> IF random_move_cells(h, w, e) = {} THEN None
             ELSE first_cell(random_move_cells(h, w, e)),
     e |-> e]

\* ---- the state machine --------------------------------------------------
Eng == [moves_made |-> moves_made, mines |-> mines, safes |-> safes,
        knowledge |-> knowledge, clamped |-> clamped]

SetEng(e) ==
    /\ moves_made' = e.moves_made
    /\ mines' = e.mines
    /\ safes' = e.safes
    /\ knowledge' = e.knowledge
    /\ clamped' = e.clamped

Board == Cells(height, width)

InitEngine ==
    /\ moves_made = {} /\ mines = {} /\ safes = {} /\ knowledge = <<>>
    /\ clamped = FALSE /\ before = NewAI
    /\ op = "init" /\ arg = None /\ argn = 0 /\ ret = None /\ ncalls = 0
    /\ rep = FALSE

\* no add_knowledge call is running
NoCall ==
    /\ pc = "idle" /\ isentence = 0 /\ ifirst = 0 /\ isecond = 0
    /\ tempKnowledge = <<>> /\ itemp = 0

\* the board sizes of the model, non-square ones in both orientations
InitBoard ==
    /\ height \in 1 .. MaxCells
    /\ width \in 1 .. MaxCells
    /\ height * width <= MaxCells

\* a game: a board of some size with some mine layout and a new engine
Init ==
    /\ InitBoard
    /\ layout \in SUBSET Cells(height, width)
    /\ InitEngine /\ NoCall
    /\ sen = Sentence({}, 0) /\ pre = sen /\ known = {}

\* the game reports a cell that is not a mine with its true count
Observe ==
    /\ ncalls < MaxObs
    /\ \E cell \in Board \ layout :
          /\ SetEng(add_knowledge(height, width, Eng, cell,
                                  nearby_mines(height, width, layout, cell)))
          /\ arg' = cell
          /\ argn' = nearby_mines(height, width, layout, cell)
          /\ rep' = (op = "add_knowledge" /\ arg = cell)
    /\ op' = "add_knowledge" /\ ret' = None /\ ncalls' = ncalls + 1
    /\ before' = Eng
    /\ UNCHANGED <<stepvars, height, width, layout, senvars>>

SafeMove ==
    /\ \E pick \in safe_move_cells(Eng) \cup {None} :
          /\ pick = None <=> safe_move_cells(Eng) = {}
          /\ LET r == make_safe_move(Eng, pick)
             IN  SetEng(r.e) /\ ret' = r.ret
    /\ op' = "make_safe_move" /\ arg' = None /\ argn' = 0 /\ rep' = FALSE
    /\ UNCHANGED <<stepvars, height, width, layout, ncalls, before, senvars>>

RandomMove ==
    /\ LET r == make_random_move(height, width, Eng)
       IN  SetEng(r.e) /\ ret' = r.ret
    /\ op' = "make_random_move" /\ arg' = None /\ argn' = 0 /\ rep' = FALSE
    /\ UNCHANGED <<stepvars, height, width, layout, ncalls, before, senvars>>

Next == Observe \/ SafeMove \/ RandomMove

Spec == Init /\ [][Next]_vars

\* ---- any caller: calls with arbitrary cells and counts -------------------
InitAny ==
    /\ InitBoard
    /\ height * width <= MaxCellsAny
    /\ layout = {}
    /\ InitEngine /\ NoCall
    /\ sen = Sentence({}, 0) /\ pre = sen /\ known = {}

AddKnowledge ==
    /\ ncalls < MaxCalls
    /\ \E cell \in Board, count \in 0 .. MaxCount :
          /\ SetEng(add_knowledge(height, width, Eng, cell, count))
          /\ arg' = cell
          /\ argn' = count
          /\ rep' = (op = "add_knowledge" /\ arg = cell)
    /\ op' = "add_knowledge" /\ ret' = None /\ ncalls' = ncalls + 1
    /\ UNCHANGED <<stepvars, height, width, layout, before, senvars>>

MarkMine ==
    /\ ncalls < MaxCalls
    /\ \E cell \in Board :
          /\ SetEng(mark_mine(Eng, cell))
          /\ arg' = cell
          /\ rep' = (op = "mark_mine" /\ arg = cell)
    /\ op' = "mark_mine" /\ argn' = 0 /\ ret' = None /\ ncalls' = ncalls + 1
    /\ UNCHANGED <<stepvars, height, width, layout, before, senvars>>

MarkSafe ==
    /\ ncalls < MaxCalls
    /\ \E cell \in Board :
          /\ SetEng(mark_safe(Eng, cell))
          /\ arg' = cell
          /\ rep' = (op = "mark_safe" /\ arg = cell)
    /\ op' = "mark_safe" /\ argn' = 0 /\ ret' = None /\ ncalls' = ncalls + 1
    /\ UNCHANGED <<stepvars, height, width, layout, before, senvars>>

NextAny == AddKnowledge \/ MarkMine \/ MarkSafe \/ SafeMove \/ RandomMove

SpecAny == InitAny /\ [][NextAny]_vars

\* ---- one Sentence on its own ---------------------------------------------
InitSentence ==
    /\ InitBoard
    /\ layout = {}
    /\ InitEngine /\ NoCall
    /\ \E cells \in SUBSET Cells(height, width) :
          \E count \in 0 .. Cardinality(cells) : sen = Sentence(cells, count)
    /\ pre = sen /\ known = {}

SentenceMarkMine ==
    /\ \E cell \in Board :
          /\ sen' = Sentence_mark_mine(sen, cell)
          /\ arg' = cell
    /\ op' = "Sentence_mark_mine" /\ pre' = sen
    /\ UNCHANGED <<stepvars, height, width, layout, engvars, clamped, before>>
    /\ UNCHANGED <<argn, ret, ncalls, rep, known>>

SentenceMarkSafe ==
    /\ \E cell \in Board :
          /\ sen' = Sentence_mark_safe(sen, cell)
          /\ arg' = cell
    /\ op' = "Sentence_mark_safe" /\ pre' = sen
    /\ UNCHANGED <<stepvars, height, width, layout, engvars, clamped, before>>
    /\ UNCHANGED <<argn, ret, ncalls, rep, known>>

SentenceKnownMines ==
    /\ known' = known_mines(sen)
    /\ sen' = sen /\ pre' = sen
    /\ op' = "known_mines" /\ arg' = None
    /\ UNCHANGED <<stepvars, height, width, layout, engvars, clamped, before>>
    /\ UNCHANGED <<argn, ret, ncalls, rep>>

SentenceKnownSafes ==
    /\ known' = known_safes(sen)
    /\ sen' = sen /\ pre' = sen
    /\ op' = "known_safes" /\ arg' = None
    /\ UNCHANGED <<stepvars, height, width, layout, engvars, clamped, before>>
    /\ UNCHANGED <<argn, ret, ncalls, rep>>

NextSentence ==
    \/ SentenceMarkMine \/ SentenceMarkSafe
    \/ SentenceKnownMines \/ SentenceKnownSafes

SpecSentence == InitSentence /\ [][NextSentence]_vars

\* ---- one add_knowledge call, loop iteration by loop iteration -----------
\* a derivation loop body that appends to the list it iterates over
derive_pair_live(k, t, i, j) ==
    [knowledge |-> IF derivable(k[i], k[j])
                   THEN Append(k, Sentence(k[j].cells \ k[i].cells,
                                           k[j].count - k[i].count))
                   ELSE k,
     tempKnowledge |-> t]

\* the body of the derivation loops for first = k[i] and second = k[j]:
\* a derived sentence goes to tempKnowledge, knowledge is left alone
derive_pair(k, t, i, j) ==
    [knowledge |-> k,
     tempKnowledge |-> IF derivable(k[i], k[j])
                       THEN Append(t, Sentence(k[j].cells \ k[i].cells,
                                               k[j].count - k[i].count))
                       ELSE t]

\* the call starts: steps 1 to 3 and the new sentence, then the closure
\* loop is entered at the head of the list (the history variables arg,
\* argn, rep and before of Spec are not kept here)
BeginCall ==
    /\ pc = "idle" /\ ncalls < MaxStepObs /\ Len(knowledge) < MaxKnowledge
    /\ \E cell \in Board \ layout :
          SetEng(intake(height, width, Eng, cell,
                        nearby_mines(height, width, layout, cell)))
    /\ pc' = "closure" /\ isentence' = 1
    /\ ifirst' = 0 /\ isecond' = 0 /\ tempKnowledge' = <<>> /\ itemp' = 0
    /\ UNCHANGED <<height, width, layout, op, arg, argn, ret, ncalls, rep,
                   before, senvars>>

\* one iteration of "for sentence in self.knowledge" of the closure pass
ClosureStep ==
    /\ pc = "closure" /\ isentence <= Len(knowledge)
    /\ SetEng(closure_sentence(Eng, isentence))
    /\ isentence' = isentence + 1
    /\ UNCHANGED <<height, width, layout, op, arg, argn, ret, ncalls, rep,
                   before, senvars, pc, ifirst, isecond, tempKnowledge,
                   itemp>>

\* the closure loop is exhausted: tempKnowledge = [] and the loops over
\* first and second are entered
ClosureDone ==
    /\ pc = "closure" /\ isentence > Len(knowledge)
    /\ pc' = "derive" /\ ifirst' = 1 /\ isecond' = 1 /\ tempKnowledge' = <<>>
    /\ UNCHANGED <<height, width, layout, engvars, clamped, op, arg, argn,
                   ret, ncalls, rep, before, senvars, isentence, itemp>>

\* one iteration of "for second in self.knowledge"
DeriveStep ==
    /\ pc = "derive" /\ ifirst <= Len(knowledge)
    /\ isecond <= Len(knowledge) /\ Len(knowledge) <= MaxKnowledge
    /\ LET r == derive_pair(knowledge, tempKnowledge, ifirst, isecond)
       IN  /\ knowledge' = r.knowledge
           /\ tempKnowledge' = r.tempKnowledge
    /\ isecond' = isecond + 1
    /\ UNCHANGED <<height, width, layout, moves_made, mines, safes, clamped,
                   op, arg, argn, ret, ncalls, rep, before, senvars, pc,
                   isentence, ifirst, itemp>>

\* the loop over second is exhausted: the next first
DeriveNextFirst ==
    /\ pc = "derive" /\ ifirst <= Len(knowledge)
    /\ isecond > Len(knowledge)
    /\ ifirst' = ifirst + 1 /\ isecond' = 1
    /\ UNCHANGED <<height, width, layout, engvars, clamped, op, arg, argn,
                   ret, ncalls, rep, before, senvars, pc, isentence,
                   tempKnowledge, itemp>>

\* the loop over first is exhausted: the loop over tempKnowledge is entered
DeriveDone ==
    /\ pc = "derive" /\ ifirst > Len(knowledge)
    /\ pc' = "append" /\ itemp' = 1
    /\ UNCHANGED <<height, width, layout, engvars, clamped, op, arg, argn,
                   ret, ncalls, rep, before, senvars, isentence, ifirst,
                   isecond, tempKnowledge>>

\* one iteration of "for sentence in tempKnowledge"
AppendStep ==
    /\ pc = "append" /\ itemp <= Len(tempKnowledge)
    /\ Len(knowledge) < MaxKnowledge
    /\ knowledge' = Append(knowledge, tempKnowledge[itemp])
    /\ itemp' = itemp + 1
    /\ UNCHANGED <<height, width, layout, moves_made, mines, safes, clamped,
                   op, arg, argn, ret, ncalls, rep, before, senvars, pc,
                   isentence, ifirst, isecond, tempKnowledge>>

\* the loop over tempKnowledge is exhausted: the call returns
Return ==
    /\ pc = "append" /\ itemp > Len(tempKnowledge)
    /\ pc' = "idle" /\ op' = "add_knowledge" /\ ret' = None
    /\ ncalls' = ncalls + 1
    /\ UNCHANGED <<height, width, layout, engvars, clamped, arg, argn, rep,
                   before, senvars, isentence, ifirst, isecond,
                   tempKnowledge, itemp>>

\* the steps of a running call
CallStep ==
    \/ ClosureStep \/ ClosureDone
    \/ DeriveStep \/ DeriveNextFirst \/ DeriveDone
    \/ AppendStep \/ Return

NextSteps == BeginCall \/ CallStep

\* a call runs to completion once started: the engine is synchronous and
\* single-threaded, nothing suspends a call between two of its steps
SpecSteps == Init /\ [][NextSteps]_vars /\ WF_vars(CallStep)

\* ---- properties ----------------------------------------------------------
\* the in-bounds cells at Chebyshev distance 1 from cell
adjacent(cell) ==
    {n \in Board : n # cell /\ abs(n[1] - cell[1]) <= 1 /\ abs(n[2] - cell[2]) <= 1}

\* C1: under truthful observations of non-mine cells the sets mines and
\* safes are disjoint after every add_knowledge call (Spec).
C1_MinesSafesDisjoint == mines \cap safes = {}

C1_Witness ==
    /\ op = "add_knowledge" /\ ncalls >= 2
    /\ mines # {} /\ safes \ moves_made # {}

\* C2: when add_knowledge returns, no sentence of knowledge yields a new
\* fact: the known_mines of every sentence are in mines and its known_safes
\* are in safes (Spec).
C2_ClosureFixpoint ==
    op = "add_knowledge" =>
        \A i \in DOMAIN knowledge :
            /\ known_mines(knowledge[i]) \subseteq mines
            /\ known_safes(knowledge[i]) \subseteq safes

\* C3: make_safe_move returns a cell of safes that is not in moves_made when
\* there is one, and None exactly when there is none (SpecAny).
C3_SafeMove ==
    op = "make_safe_move" =>
        /\ ret = None <=> safes \ moves_made = {}
        /\ ret # None => ret \in safes /\ ret \notin moves_made

C3_Witness ==
    /\ op = "make_safe_move" /\ ret # None
    /\ safes \cap moves_made # {}

\* C4: make_random_move returns a cell of the height x width board that is in
\* neither moves_made nor mines, and None exactly when every cell of the
\* board is in moves_made or mines (SpecAny).
C4_RandomMove ==
    op = "make_random_move" =>
        /\ ret = None <=> \A c \in Board : c \in moves_made \cup mines
        /\ ret # None =>
              /\ 0 <= ret[1] /\ ret[1] < height
              /\ 0 <= ret[2] /\ ret[2] < width
              /\ ret \notin moves_made /\ ret \notin mines

C4_Witness ==
    /\ op = "make_random_move" /\ ret # None
    /\ height # width /\ mines # {} /\ moves_made # {}
    /\ ret # <<0, 0>>

\* C5: a make_safe_move or make_random_move call leaves moves_made, safes,
\* mines and knowledge as they were (SpecAny).
C5_QueriesPure ==
    [][op' \in {"make_safe_move", "make_random_move"} => UNCHANGED engvars]_vars

C5_Witness ==
    /\ op = "make_safe_move" /\ ret # None
    /\ knowledge # <<>> /\ mines # {}

\* C6: after every add_knowledge call no cell of safes or mines is among the
\* cells of a sentence of knowledge (Spec).
C6_ConfirmedStripped ==
    op = "add_knowledge" =>
        \A i \in DOMAIN knowledge :
            knowledge[i].cells \cap (safes \cup mines) = {}

\* C7: after a truthful add_knowledge(c, 0) the cell c and every in-bounds
\* neighbour of c are in safes (Spec).
C7_ZeroCountNeighboursSafe ==
    (op = "add_knowledge" /\ argn = 0) =>
        ({arg} \cup adjacent(arg)) \subseteq safes

C7_Witness ==
    /\ op = "add_knowledge" /\ argn = 0
    /\ Cardinality(adjacent(arg)) >= 3 /\ layout # {}

\* C8, as stated: a sentence that starts with count <= |cells| has
\* count <= |cells| after any sequence of Sentence.mark_mine and
\* Sentence.mark_safe calls with arbitrary cells (SpecSentence).
C8_CountAtMostCells == sen.count <= Cardinality(sen.cells)

\* C8, amended: from count <= |cells| a Sentence.mark_mine call with any cell
\* keeps count <= |cells|, and so does a Sentence.mark_safe call unless its
\* cell is in cells and count = |cells| (SpecSentence).
C8_NarrowingKeepsBound ==
    [][(/\ sen.count <= Cardinality(sen.cells)
        /\ ~(/\ op' = "Sentence_mark_safe"
             /\ arg' \in sen.cells
             /\ sen.count = Cardinality(sen.cells)))
       => sen'.count <= Cardinality(sen'.cells)]_vars

C8_Witness ==
    /\ op = "Sentence_mark_mine" /\ arg \notin sen.cells
    /\ sen.count = Cardinality(sen.cells) /\ sen.count > 0

\* C9: the derivation step of add_knowledge never appends a sentence equal
\* (same cells, same count) to a sentence already in knowledge (Spec).  The
\* sentences the step appends are those after the new sentence of the call.
C9_NoDuplicateDerived ==
    [][op' = "add_knowledge" /\ ncalls' = ncalls + 1 =>
          \A j \in (Len(knowledge) + 2) .. Len(knowledge') :
              \A i \in 1 .. (j - 1) : knowledge'[i] # knowledge'[j]]_vars

\* C10: a mark_mine(c) or mark_safe(c) call that follows the same call with
\* the same cell changes nothing in moves_made, safes, mines and knowledge
\* (SpecAny).
C10_MarkIdempotent ==
    [][(/\ op' \in {"mark_mine", "mark_safe"}
        /\ op' = op /\ arg' = arg /\ ncalls' = ncalls + 1)
       => UNCHANGED engvars]_vars

C10_Witness ==
    /\ rep /\ op = "mark_mine"
    /\ \E i \in DOMAIN knowledge :
          knowledge[i].count > 0 /\ knowledge[i].cells # {}

\* C11: known_mines returns the cells of the sentence if count > 0 and
\* count = |cells|, the empty set otherwise, and leaves the sentence as it
\* was (SpecSentence).
C11_KnownMines ==
    op = "known_mines" =>
        /\ known = IF pre.count > 0 /\ pre.count = Cardinality(pre.cells)
                   THEN pre.cells ELSE {}
        /\ sen = pre

C11_Witness ==
    /\ op = "known_mines" /\ Cardinality(known) >= 2 /\ sen.cells = known

\* C12: Sentence.mark_mine on a sentence that holds the cell removes that
\* cell and lowers count by one, a count of 0 staying 0; on a sentence that
\* does not hold the cell it changes nothing (SpecSentence).
C12_SentenceMarkMine ==
    op = "Sentence_mark_mine" =>
        IF arg \in pre.cells
        THEN /\ sen.cells = pre.cells \ {arg}
             /\ sen.count = (IF pre.count = 0 THEN 0 ELSE pre.count - 1)
             /\ sen.count >= 0
        ELSE sen = pre

C12_Witness ==
    /\ op = "Sentence_mark_mine" /\ arg \in pre.cells
    /\ pre.count = 0 /\ sen.cells # {}

\* C13: over any sequence of add_knowledge, mark_mine and mark_safe calls no
\* cell leaves moves_made, safes or mines, and an add_knowledge(c, n) call
\* adds the cell c and no other cell to moves_made (SpecAny).
C13_SetsOnlyGrow ==
    [][/\ moves_made \subseteq moves_made'
       /\ safes \subseteq safes'
       /\ mines \subseteq mines'
       /\ (op' = "add_knowledge" /\ ncalls' = ncalls + 1)
             => moves_made' = moves_made \cup {arg'}]_vars

C13_Witness ==
    /\ op = "add_knowledge" /\ ncalls >= 3
    /\ Cardinality(moves_made) = 2 /\ mines # {}
    /\ Cardinality(safes) > Cardinality(moves_made)

\* the engine of the last observation when its closure pass has ended
after_closure == closure_pass(intake(height, width, before, arg, argn))

\* the ordered pairs (A, B) of positions of the sentences k with A.cells a
\* proper subset of B.cells, A.cells not empty and both counts positive
subset_pairs(k) ==
    {p \in (1 .. Len(k)) \X (1 .. Len(k)) :
        /\ k[p[1]].cells \subseteq k[p[2]].cells
        /\ k[p[1]].cells # k[p[2]].cells
        /\ k[p[1]].cells # {}
        /\ k[p[1]].count > 0 /\ k[p[2]].count > 0}

difference(k, p) ==
    Sentence(k[p[2]].cells \ k[p[1]].cells, k[p[2]].count - k[p[1]].count)

\* the sentences k with the differences of its subset pairs appended, one
\* for every pair, in some order
derived_from(k, after) ==
    LET pairs == subset_pairs(k)
        appended == (Len(k) + 1) .. Len(after)
    IN  /\ Len(after) >= Len(k)
        /\ SubSeq(after, 1, Len(k)) = k
        /\ Cardinality(appended) = Cardinality(pairs)
        /\ \A x \in appended :
              Cardinality({y \in appended : after[y] = after[x]})
                  = Cardinality({p \in pairs : difference(k, p) = after[x]})
        /\ \A p \in pairs : \E x \in appended : after[x] = difference(k, p)

C15_NewSentence ==
    op = "add_knowledge" =>
        LET k == intake(height, width, before, arg, argn).knowledge
        IN  /\ Len(k) = Len(before.knowledge) + 1
            /\ k[Len(k)].count = argn
            /\ k[Len(k)].cells = adjacent(arg) \ (before.safes \cup {arg})

C15_Witness ==
    /\ op = "add_knowledge" /\ height # width
    /\ adjacent(arg) \cap before.mines # {}
    /\ adjacent(arg) \cap before.safes # {}

\* C16: every add_knowledge call terminates: the closure loop and the
\* derivation loops run over a knowledge list whose length does not change
\* while they run (derived sentences go to tempKnowledge), their indices
\* stay within that length, and a call that has started returns.
C16_Terminates ==
    /\ [][(pc = "closure" \/ pc = "derive")
            => Len(knowledge') = Len(knowledge)]_vars
    /\ [](pc = "closure" => isentence <= Len(knowledge) + 1)
    /\ [](pc = "derive" =>
            /\ ifirst <= Len(knowledge) + 1
            /\ isecond <= Len(knowledge) + 1
            /\ Len(tempKnowledge)
                  <= (ifirst - 1) * Len(knowledge) + (isecond - 1))
    /\ (pc # "idle") ~> (pc = "idle")

\* a call whose derivation loops produced sentences has returned
C16_Witness ==
    /\ pc = "idle" /\ op = "add_knowledge"
    /\ Len(tempKnowledge) > 0
    /\ Len(knowledge) > Len(tempKnowledge) + 1

\* a sentence of the engine e from which known_mines or known_safes yields a
\* cell that e has not recorded
unused_conclusion(e, i) ==
    \/ ~(known_mines(e.knowledge[i]) \subseteq e.mines)
    \/ ~(known_safes(e.knowledge[i]) \subseteq e.safes)

\* C17: under truthful observations a sentence that is in knowledge when an
\* observation returns and is conclusive then (count = 0, or
\* count = |cells| > 0), one appended by the derivation step included, has
\* all its cells in safes (in mines) when the next observation returns (Spec).
C17_UsedByNextObservation ==
    op = "add_knowledge" =>
        \A i \in DOMAIN before.knowledge :
            /\ known_mines(before.knowledge[i]) \subseteq mines
            /\ known_safes(before.knowledge[i]) \subseteq safes

C17_Witness ==
    /\ op = "add_knowledge"
    /\ \E i \in DOMAIN before.knowledge :
          /\ unused_conclusion(before, i)
          /\ known_mines(before.knowledge[i]) # {}
          /\ arg \notin adjacent(CHOOSE c \in known_mines(before.knowledge[i]) : TRUE)

\* C18: for a fixed layout and truthful observations of cells that are not
\* mines, every cell of mines is a mine of the layout and no cell of safes
\* is, so that make_safe_move never returns a mine (Spec).
C18_Sound ==
    /\ mines \subseteq layout
    /\ safes \cap layout = {}
    /\ (op = "make_safe_move" /\ ret # None) => ret \notin layout

C18_Witness ==
    /\ op = "make_safe_move" /\ ret # None
    /\ mines # {} /\ layout \ mines # {}

\* C19: under truthful observations the count of every sentence of knowledge
\* is the number of mines of the layout among its cells, whether the sentence
\* was observed or derived; so 0 <= count <= |cells|, and the branch of
\* Sentence.mark_mine that sets a count to 0 is never taken (Spec).
C19_SentencesTrue ==
    /\ \A i \in DOMAIN knowledge :
          /\ knowledge[i].count = Cardinality(knowledge[i].cells \cap layout)
          /\ 0 <= knowledge[i].count
          /\ knowledge[i].count <= Cardinality(knowledge[i].cells)
    /\ ~clamped

C19_Witness ==
    /\ op = "add_knowledge" /\ Len(knowledge) >= 4
    /\ \E i \in DOMAIN knowledge :
          knowledge[i].cells \cap mines # {} /\ knowledge[i].count >= 2

====
